---- MODULE Spec2Model ----
(***************************************************************************)
(* Model of git_cherry_picker.py: the replay engine (CherryPicker.run,      *)
(* _apply_commits) and the conflict recovery session (_handle_conflict,     *)
(* _resolve_conflicts, _open_in_editor, _continue_or_skip).                 *)
(*                                                                          *)
(* The exit status of every git command the program starts is an input of  *)
(* the step that starts it.  A command run with check=True raises           *)
(* CalledProcessError on a non-zero status.                                 *)
(***************************************************************************)
EXTENDS Integers, Naturals, Sequences, FiniteSets, TLC

\* Largest number of commits in the ordered list handed to the replay loop.
MaxCommits == 2
\* Number of distinct paths that can be unmerged after a failed cherry-pick.
MaxFiles == 2
\* Largest number of pieces a subject line is put together from.
MaxPieces == 5
\* Largest number of lines in the output of git log.
MaxLines == 2

Branches == {"main", "release"}
\* The empty string is what 'git branch --show-current' prints on a detached HEAD.
Detached == ""
Files == 1..MaxFiles

\* Answers the operator can type at a prompt (before .lower()).
ConfirmInputs == {"y", "Y", "n", ""}
MenuInputs == {"d", "l", "c", "u", "t", "m", "s", "a", "S", "A", "x", ""}

\* str.lower() on the inputs above.
Lower(s) ==
    CASE s = "Y" -> "y"
      [] s = "S" -> "s"
      [] s = "A" -> "a"
      [] OTHER -> s

VARIABLES
    pc,           \* position of the program
    tasks,        \* is the parsed task set non-empty (main)
    source_ok,    \* does 'git rev-parse --verify source' print a hash
    dry_run,      \* --dry-run
    target,       \* target branch
    commits,      \* ordered list of commits (their hashes), as run receives it
    curBranch,    \* what 'git branch --show-current' prints now
    startBranch,  \* curBranch when the program was started
    original,     \* run's local: branch captured before applying
    i,            \* _apply_commits: 1-based index of the commit being processed
                  \* (0 before the loop, n + 1 once the list is exhausted)
    successful,   \* _apply_commits counters
    skipped,
    failed,
    summary,      \* the "Итог" line printed, or NoSummary
    status,       \* per commit: Pending / Blocked / Applied / Skipped
    attempts,     \* per commit: number of 'git cherry-pick <hash>' issued
    unmerged,     \* paths 'git diff --name-only --diff-filter=U' lists now
    inTree,       \* paths for which os.path.exists holds
    choice,       \* the choice the last step read (lower-cased), "" if none
    issued,       \* git/editor commands started by the last step
    reported,     \* diagnostics printed by the last step
    checkouts,    \* number of 'git checkout <branch>' started so far
    checkoutFailed, \* some 'git checkout <branch>' exited non-zero
    confirm,      \* run's local: the answer to the confirmation prompt, "" before
    log,          \* _parse_commits: the raw output of git log, a list of lines
    requested,    \* _parse_commits: the task set
    parsed,       \* _parse_commits: the list it returns
    subject,      \* _extract_task_id: the subject line
    task_id       \* _extract_task_id: what it returns

vars == <<pc, tasks, source_ok, dry_run, target, commits, curBranch, startBranch,
          original, i, successful, skipped, failed, summary, status, attempts,
          unmerged, inTree, choice, issued, reported, checkouts, checkoutFailed,
          confirm, log, requested, parsed, subject, task_id>>

NoSummary == [emitted |-> FALSE]
n == Len(commits)
\* None, as _extract_task_id returns it; a captured group is never empty and
\* line 74 treats the empty string like None.
None == <<>>

Terminal == {"done", "exit1", "crashed"}

Init ==
    /\ pc = "main"
    /\ tasks \in BOOLEAN
    /\ source_ok \in BOOLEAN
    /\ dry_run \in BOOLEAN
    /\ target \in Branches
    /\ \E len \in 0..MaxCommits : commits = [k \in 1..len |-> k]
    /\ curBranch \in Branches \cup {Detached}
    /\ startBranch = curBranch
    /\ original = Detached
    /\ i = 0
    /\ successful = 0
    /\ skipped = 0
    /\ failed = 0
    /\ summary = NoSummary
    /\ status = [k \in 1..n |-> "Pending"]
    /\ attempts = [k \in 1..n |-> 0]
    /\ unmerged = {}
    /\ inTree = {}
    /\ choice = ""
    /\ issued = {}
    /\ reported = {}
    /\ checkouts = 0
    /\ checkoutFailed = FALSE
    /\ confirm = ""
    /\ log = <<>>
    /\ requested = {}
    /\ parsed = <<>>
    /\ subject = <<>>
    /\ task_id = None

inputs == <<tasks, source_ok, dry_run, target, commits, startBranch>>
counters == <<successful, skipped, failed>>
conflict == <<unmerged, inTree>>
branch == <<curBranch, checkouts, checkoutFailed>>
parse == <<log, requested, parsed, subject, task_id>>

\* main(), lines 420-432: an empty task set ends the process with status 1
\* before run is called.
Main ==
    /\ pc = "main"
    /\ pc' = IF tasks THEN "run" ELSE "exit1"
    /\ reported' = IF tasks THEN {} ELSE {"no-tasks"}
    /\ UNCHANGED <<inputs, parse, confirm, branch, original, i, counters, summary, status,
                   attempts, conflict, choice, issued>>

\* A run that lacks the early return on an empty list (lines 162-164).
RunStartNoEmptyCheck ==
    /\ pc = "run"
    /\ pc' = IF ~source_ok THEN "exit1"
             ELSE IF dry_run THEN "done"
             ELSE "confirm"
    /\ reported' = IF ~source_ok THEN {"no-source"}
                   ELSE IF dry_run THEN {"dry-run"}
                   ELSE {}
    /\ UNCHANGED <<inputs, parse, confirm, branch, original, i, counters, summary, status,
                   attempts, conflict, choice, issued>>

\* A run that ignores --dry-run (lines 169-171 missing).
RunStartIgnoresDryRun ==
    /\ pc = "run"
    /\ pc' = IF ~source_ok THEN "exit1"
             ELSE IF commits = <<>> THEN "done"
             ELSE "confirm"
    /\ reported' = IF ~source_ok THEN {"no-source"}
                   ELSE IF commits = <<>> THEN {"not-found"}
                   ELSE {}
    /\ UNCHANGED <<inputs, parse, confirm, branch, original, i, counters, summary,
                   status, attempts, conflict, choice, issued>>

\* run, lines 143-171: verify the source, fetch the commits, show them, stop
\* on an empty list or on dry-run; otherwise block in the confirmation prompt.
RunStart ==
    /\ pc = "run"
    /\ pc' = IF ~source_ok THEN "exit1"
             ELSE IF commits = <<>> THEN "done"
             ELSE IF dry_run THEN "done"
             ELSE "confirm"
    /\ reported' = IF ~source_ok THEN {"no-source"}
                   ELSE IF commits = <<>> THEN {"not-found"}
                   ELSE IF dry_run THEN {"dry-run"}
                   ELSE {}
    /\ UNCHANGED <<inputs, parse, confirm, branch, original, i, counters, summary, status,
                   attempts, conflict, choice, issued>>

\* The finally clause of run (lines 185-187), entered with `orig` captured and
\* `cur` checked out; ok is the exit status of the restoring checkout.
FinallyRestores(orig, cur) == orig # Detached /\ orig # cur
FinallyBranch(orig, cur, ok) == IF FinallyRestores(orig, cur) /\ ok THEN orig ELSE cur
FinallyRaises(orig, cur, ok) == FinallyRestores(orig, cur) /\ ~ok

\* Control leaves the try block of run (lines 181-187) after a step that
\* started the commands ops; raised tells whether an exception is propagating.
LeaveTry(raised, ops) ==
    \E ok \in BOOLEAN :
        /\ curBranch' = FinallyBranch(original, curBranch, ok)
        /\ checkouts' = checkouts + (IF FinallyRestores(original, curBranch) THEN 1 ELSE 0)
        /\ checkoutFailed' = (checkoutFailed \/ FinallyRaises(original, curBranch, ok))
        /\ issued' = ops \cup (IF FinallyRestores(original, curBranch) THEN {"checkout"} ELSE {})
        /\ pc' = IF raised \/ FinallyRaises(original, curBranch, ok) THEN "crashed" ELSE "done"

\* run, lines 174-184: the confirmation, capturing the current branch and the
\* checkout of the target.
Confirm ==
    /\ pc = "confirm"
    /\ \E answer \in ConfirmInputs :
        /\ confirm' = answer
        /\ IF Lower(answer) # "y"
           THEN /\ pc' = "done"
                /\ reported' = {"cancelled"}
                /\ issued' = {}
                /\ UNCHANGED <<branch, original, i>>
           ELSE /\ original' = curBranch
                /\ reported' = {}
                /\ IF target # curBranch
                   THEN \E ok \in BOOLEAN :
                           /\ issued' = {"checkout"}
                           /\ checkouts' = checkouts + 1
                           /\ IF ok
                              THEN /\ curBranch' = target
                                   /\ pc' = "apply"
                                   /\ i' = 1
                                   /\ UNCHANGED checkoutFailed
                              ELSE \* CalledProcessError: the finally clause finds
                                   \* the branch unchanged and restores nothing
                                   /\ checkoutFailed' = TRUE
                                   /\ pc' = "crashed"
                                   /\ UNCHANGED <<curBranch, i>>
                   ELSE /\ pc' = "apply"
                        /\ i' = 1
                        /\ issued' = {}
                        /\ UNCHANGED branch
    /\ UNCHANGED <<inputs, parse, counters, summary, status, attempts, conflict, choice>>

\* A loop that does not move on: the same position is processed again.
LoopStays(k) == k

\* _apply_commits, line 353: the for loop moves on to the next commit.
LoopAdvance(k) == k + 1

\* _apply_commits, lines 359, 372-373 and 376-377: the commit at position i
\* ends as kind (Applied or Skipped) after a step that started ops.
Resolved(kind, ops, msgs) ==
    /\ status' = [status EXCEPT ![i] = kind]
    /\ successful' = successful + (IF kind = "Applied" THEN 1 ELSE 0)
    /\ skipped' = skipped + (IF kind = "Skipped" THEN 1 ELSE 0)
    /\ i' = LoopAdvance(i)
    /\ pc' = "apply"
    /\ unmerged' = {}
    /\ inTree' = {}
    /\ issued' = ops
    /\ reported' = msgs
    /\ UNCHANGED <<failed, summary, branch>>

\* A failed cherry-pick that is dropped: counted as skipped, next commit.
ApplyFailedDropped(um, tree) ==
    /\ status' = [status EXCEPT ![i] = "Skipped"]
    /\ skipped' = skipped + 1
    /\ i' = i + 1
    /\ pc' = "apply"
    /\ unmerged' = um
    /\ inTree' = tree
    /\ issued' = {"cherry-pick"}
    /\ reported' = {"conflict"}
    /\ UNCHANGED <<successful, failed, summary, branch>>

\* _apply_commits, lines 360-365: a failed cherry-pick prints the diagnostic
\* and enters the recovery loop for the same commit; um are the paths left
\* unmerged and tree those of them present in the working tree.
ApplyFailed(um, tree) ==
    /\ status' = [status EXCEPT ![i] = "Blocked"]
    /\ pc' = "menu"
    /\ unmerged' = um
    /\ inTree' = tree
    /\ issued' = {"cherry-pick"}
    /\ reported' = {"conflict"}
    /\ UNCHANGED <<i, counters, summary, branch>>

\* _apply_commits, lines 353-361, with GitClient.cherry_pick (113-128): one
\* iteration of the for loop up to the success or failure of the cherry-pick.
ApplyNext ==
    /\ pc = "apply"
    /\ i <= n
    /\ attempts' = [attempts EXCEPT ![i] = @ + 1]
    /\ choice' = ""
    /\ \E ok \in BOOLEAN :
        IF ok
        THEN Resolved("Applied", {"cherry-pick"}, {})
        ELSE \E um \in SUBSET Files : \E tree \in SUBSET um : ApplyFailed(um, tree)
    /\ UNCHANGED <<inputs, parse, confirm, original>>

\* _apply_commits, lines 381-382, and the finally clause of run: the loop is
\* exhausted, the summary line is printed and run returns.
Finish ==
    /\ pc = "apply"
    /\ i > n
    /\ summary' = [emitted |-> TRUE, applied |-> successful,
                   skipped |-> skipped, failed |-> failed]
    /\ reported' = {"summary"}
    /\ choice' = ""
    /\ LeaveTry(FALSE, {})
    /\ UNCHANGED <<inputs, parse, confirm, original, i, counters, status, attempts, conflict>>

\* An exception leaves _handle_conflict and _apply_commits uncaught (nothing
\* there catches it inside the except block of lines 360-379); the finally
\* clause of run executes and the exception reaches main.
Raise(ops, um) ==
    /\ LeaveTry(TRUE, ops)
    /\ unmerged' = um
    /\ reported' = {"traceback"}
    /\ UNCHANGED <<i, counters, summary, status, inTree>>

\* The recovery loop goes on for the same commit, waiting at prompt `at`.
StayBlocked(at, ops, msgs, um) ==
    /\ pc' = at
    /\ unmerged' = um
    /\ issued' = ops
    /\ reported' = msgs
    /\ UNCHANGED <<i, counters, summary, status, inTree, branch>>

\* _handle_conflict, lines 256-259 and 277-278: diff, list and an unknown
\* letter print something and offer the menu again.
ShowDiff ==
    /\ pc = "menu"
    /\ \E inp \in MenuInputs : Lower(inp) = "d" /\ choice' = Lower(inp)
    /\ StayBlocked("menu", {}, {"diff"}, unmerged)
    /\ UNCHANGED <<inputs, parse, confirm, original, attempts>>

ShowList ==
    /\ pc = "menu"
    /\ \E inp \in MenuInputs : Lower(inp) = "l" /\ choice' = Lower(inp)
    /\ StayBlocked("menu", {}, {"list"}, unmerged)
    /\ UNCHANGED <<inputs, parse, confirm, original, attempts>>

MenuLetters == {"d", "l", "c", "u", "t", "m", "s", "a"}

InvalidChoice ==
    /\ pc = "menu"
    /\ \E inp \in MenuInputs : Lower(inp) \notin MenuLetters /\ choice' = Lower(inp)
    /\ StayBlocked("menu", {}, {"invalid-choice"}, unmerged)
    /\ UNCHANGED <<inputs, parse, confirm, original, attempts>>

\* 'git cherry-pick --continue' refuses to commit while paths are unmerged.
ContinueCanSucceed(um) == um = {}

\* _continue_or_skip, lines 333-341, with lines 374-377 of _apply_commits:
\* the continue attempt with um still unmerged, after a step that already
\* started ops and printed msgs.  Success resolves the commit as Applied;
\* failure blocks in the skip prompt.
ContinueAttempt(ops, msgs, um) ==
    \E ok \in BOOLEAN :
        /\ ok => ContinueCanSucceed(um)
        /\ IF ok
           THEN Resolved("Applied", ops \cup {"continue"}, msgs)
           ELSE StayBlocked("askskip", ops \cup {"continue"},
                            msgs \cup {"continue-failed"}, um)

\* GitClient.cherry_pick_skip (130-131) as called at lines 272-273 and
\* 343-344, with lines 371-373 of _apply_commits.  check=True: a non-zero
\* status raises.
\* A skip after which the recovery loop offers the menu for the same commit
\* again.
CherryPickSkipStays ==
    \E ok \in BOOLEAN :
        IF ok THEN StayBlocked("menu", {"skip"}, {}, unmerged)
              ELSE Raise({"skip"}, unmerged)

CherryPickSkip ==
    \E ok \in BOOLEAN :
        IF ok THEN Resolved("Skipped", {"skip"}, {})
              ELSE Raise({"skip"}, unmerged)

\* _handle_conflict, lines 260-261.
ChooseContinue ==
    /\ pc = "menu"
    /\ \E inp \in MenuInputs : Lower(inp) = "c" /\ choice' = Lower(inp)
    /\ ContinueAttempt({}, {}, unmerged)
    /\ UNCHANGED <<inputs, parse, confirm, original, attempts>>

\* _handle_conflict, lines 271-273.
ChooseSkip ==
    /\ pc = "menu"
    /\ \E inp \in MenuInputs : Lower(inp) = "s" /\ choice' = Lower(inp)
    /\ CherryPickSkip
    /\ UNCHANGED <<inputs, parse, confirm, original, attempts>>

\* A count of the commits after the blocked one only.
RemainingAfter(total, at) == total - at

\* Line 369: the commits from the blocked one to the last.
Remaining(total, at) == total - at + 1

\* _handle_conflict, lines 274-276, GitClient.cherry_pick_abort (133-134) and
\* lines 367-370 of _apply_commits: abort returns from _apply_commits before
\* the summary line; a non-zero status of the abort command raises.
ChooseAbort ==
    /\ pc = "menu"
    /\ \E inp \in MenuInputs : Lower(inp) = "a" /\ choice' = Lower(inp)
    /\ \E ok \in BOOLEAN :
        IF ok
        THEN /\ failed' = Remaining(n, i)
             /\ LeaveTry(FALSE, {"abort"})
             /\ reported' = {"aborted"}
             /\ unmerged' = {}
             /\ inTree' = {}
             /\ UNCHANGED <<i, successful, skipped, summary, status>>
        ELSE Raise({"abort"}, unmerged)
    /\ UNCHANGED <<inputs, parse, confirm, original, attempts>>

\* _resolve_conflicts, lines 292-303: the paths staged by the loop over the
\* listing (git lists paths in increasing order), from path f on.  A path
\* that is not in the working tree is passed over (line 295); failAt is the
\* path whose checkout or add exits non-zero (0: none), which abandons the
\* loop through the except clause of line 306.
RECURSIVE StagedFrom(_, _, _, _)
StagedFrom(f, um, tree, failAt) ==
    IF f > MaxFiles THEN {}
    ELSE IF f \notin um \/ f \notin tree THEN StagedFrom(f + 1, um, tree, failAt)
    ELSE IF f = failAt THEN {}
    ELSE {f} \cup StagedFrom(f + 1, um, tree, failAt)

\* _resolve_conflicts (280-308): the paths it stages; listOk is the exit
\* status of the listing command.
ResolveConflicts(um, tree, listOk, failAt) ==
    IF listOk THEN StagedFrom(1, um, tree, failAt) ELSE {}

\* The commands _resolve_conflicts starts on the repository.
ResolveOps(um, tree, listOk) ==
    IF listOk /\ um \cap tree # {} THEN {"checkout-side", "add"} ELSE {}

\* What _resolve_conflicts prints (lines 305 and 307-308).
ResolveMsgs(um, tree, listOk, failAt) ==
    IF ~listOk \/ failAt \in (um \cap tree) THEN {"strategy-error"}
    ELSE IF um = {} THEN {"no-files"}
    ELSE {}

\* _handle_conflict, lines 262-267: ours / theirs, then the continue attempt.
ChooseStrategy ==
    /\ pc = "menu"
    /\ \E inp \in MenuInputs : Lower(inp) \in {"u", "t"} /\ choice' = Lower(inp)
    /\ \E listOk \in BOOLEAN : \E failAt \in 0..MaxFiles :
        ContinueAttempt(ResolveOps(unmerged, inTree, listOk),
                        ResolveMsgs(unmerged, inTree, listOk, failAt),
                        unmerged \ ResolveConflicts(unmerged, inTree, listOk, failAt))
    /\ UNCHANGED <<inputs, parse, confirm, original, attempts>>

\* How starting the editor can end (line 323): it exits 0, it exits non-zero
\* (CalledProcessError, caught at line 326), or the program is not found
\* (FileNotFoundError, which line 326 does not catch).
EditorOutcomes == {"ok", "nonzero", "notfound"}

\* _handle_conflict, lines 268-270, with _open_in_editor (310-327): the editor,
\* in which the operator may resolve and stage some of the paths, then the
\* continue attempt.
ChooseManual ==
    /\ pc = "menu"
    /\ \E inp \in MenuInputs : Lower(inp) = "m" /\ choice' = Lower(inp)
    /\ \E listOk \in BOOLEAN :
        IF ~listOk
        THEN ContinueAttempt({}, {"editor-error"}, unmerged)
        ELSE IF unmerged = {}
        THEN ContinueAttempt({}, {"no-files"}, unmerged)
        ELSE \E ed \in EditorOutcomes : \E done \in SUBSET unmerged :
                IF ed = "notfound"
                THEN done = {} /\ Raise({"editor"}, unmerged)
                ELSE ContinueAttempt({"editor"},
                                     IF ed = "nonzero" THEN {"editor-error"} ELSE {},
                                     unmerged \ done)
    /\ UNCHANGED <<inputs, parse, confirm, original, attempts>>

\* _continue_or_skip, lines 341-347: the answer to "skip this commit?".
AnswerSkip ==
    /\ pc = "askskip"
    /\ \E inp \in ConfirmInputs :
        /\ choice' = Lower(inp)
        /\ IF Lower(inp) = "y"
           THEN CherryPickSkip
           ELSE StayBlocked("menu", {}, {"retry"}, unmerged)
    /\ UNCHANGED <<inputs, parse, confirm, original, attempts>>

Next ==
    \/ Main
    \/ RunStart
    \/ Confirm
    \/ ApplyNext
    \/ Finish
    \/ ShowDiff
    \/ ShowList
    \/ InvalidChoice
    \/ ChooseContinue
    \/ ChooseStrategy
    \/ ChooseManual
    \/ ChooseSkip
    \/ ChooseAbort
    \/ AnswerSkip

Spec == Init /\ [][Next]_vars

\* The exit status of the process: sys.exit(1) at lines 157 and 428, an
\* exception that reaches the top of main (traceback, status 1), or a return
\* from main (status 0).
ExitStatus == IF pc \in {"exit1", "crashed"} THEN 1 ELSE 0

\* The steps of the program that wait for no input: main up to run, run up to
\* the confirmation prompt, an iteration of the for loop of _apply_commits and
\* its end.  The interpreter executes them as soon as they are reached.  The
\* steps that read an answer (Confirm, the menu, AnswerSkip) are the
\* operator's and get no fairness: input() waits as long as it takes.
ProgramStep == Main \/ RunStart \/ ApplyNext \/ Finish

LiveSpec == Spec /\ WF_vars(ProgramStep)

(***************************************************************************)
(* GitClient._extract_task_id: subject lines are sequences of characters.   *)
(***************************************************************************)

Upper == {"A", "B"}
Digit == {"1", "2"}
\* What subject lines are put together from.
Pieces == {<<"A", "-", "1">>, <<"A">>, <<"-">>, <<"2">>, <<"[">>, <<"]">>, <<"#">>}

RECURSIVE SubjectsOf(_)
SubjectsOf(k) ==
    IF k = 0 THEN {<<>>}
    ELSE LET shorter == SubjectsOf(k - 1)
         IN  shorter \cup {s \o piece : s \in shorter, piece \in Pieces}

Subjects == SubjectsOf(MaxPieces)

\* A greedy character class repetition: the index after the longest run of
\* characters of class that starts at p.
RECURSIVE RunEnd(_, _, _)
RunEnd(s, p, class) ==
    IF p <= Len(s) /\ s[p] \in class THEN RunEnd(s, p + 1, class) ELSE p

\* [A-Z]+-\d+ tried at position p: the index after the match, 0 if none.
MatchTag(s, p) ==
    LET q == RunEnd(s, p, Upper)
        e == RunEnd(s, q + 1, Digit)
    IN  IF q > p /\ q <= Len(s) /\ s[q] = "-" /\ e > q + 1 THEN e ELSE 0

\* One pattern of lines 100-102 tried at position p: group 1 of the match,
\* None if the pattern does not match there.  "dollar" is the pattern of
\* line 101, $$([A-Z]+-\d+)$$, in which each $ matches only at the end of the
\* subject.
MatchAt(pat, s, p) ==
    CASE pat = "bare" ->
            IF MatchTag(s, p) # 0 THEN SubSeq(s, p, MatchTag(s, p) - 1) ELSE None
      [] pat = "dollar" ->
            IF p = Len(s) + 1 /\ MatchTag(s, p) = Len(s) + 1
            THEN SubSeq(s, p, MatchTag(s, p) - 1) ELSE None
      [] pat = "hash" ->
            IF p <= Len(s) /\ s[p] = "#" /\ RunEnd(s, p + 1, Digit) > p + 1
            THEN SubSeq(s, p + 1, RunEnd(s, p + 1, Digit) - 1) ELSE None

\* re.search: the match at the leftmost position, from p on.
RECURSIVE Search(_, _, _)
Search(pat, s, p) ==
    IF p > Len(s) + 1 THEN None
    ELSE IF MatchAt(pat, s, p) # None THEN MatchAt(pat, s, p)
    ELSE Search(pat, s, p + 1)

\* The rules with the '#' rule tried first.
PatternsHashFirst == <<"hash", "bare", "dollar">>

\* The list of lines 99-103, in its order.
Patterns == <<"bare", "dollar", "hash">>

\* The loop of lines 104-108 over the patterns from the k-th on.
RECURSIVE FirstMatch(_, _)
FirstMatch(k, s) ==
    IF k > Len(Patterns) THEN None
    ELSE IF Search(Patterns[k], s, 1) # None THEN Search(Patterns[k], s, 1)
    ELSE FirstMatch(k + 1, s)

\* GitClient._extract_task_id (lines 96-108).
ExtractTaskId(s) == FirstMatch(1, s)

\* The engine is not running: the values of its variables in the
\* specifications of the pure functions.
EngineIdle ==
    /\ tasks = TRUE
    /\ source_ok = TRUE
    /\ dry_run = FALSE
    /\ target = "main"
    /\ commits = <<>>
    /\ curBranch = "main"
    /\ startBranch = "main"
    /\ original = Detached
    /\ i = 0
    /\ successful = 0
    /\ skipped = 0
    /\ failed = 0
    /\ summary = NoSummary
    /\ status = <<>>
    /\ attempts = <<>>
    /\ unmerged = {}
    /\ inTree = {}
    /\ choice = ""
    /\ issued = {}
    /\ reported = {}
    /\ checkouts = 0
    /\ checkoutFailed = FALSE
    /\ confirm = ""

engine == <<inputs, branch, original, i, counters, summary, status, attempts,
            conflict, choice, issued, reported, confirm>>

ExtractInit ==
    /\ EngineIdle
    /\ pc = "extract"
    /\ subject \in Subjects
    /\ task_id = None
    /\ log = <<>>
    /\ requested = {}
    /\ parsed = <<>>

\* A call of _extract_task_id.
ExtractTask ==
    /\ pc = "extract"
    /\ task_id' = ExtractTaskId(subject)
    /\ pc' = "extracted"
    /\ UNCHANGED <<engine, subject, log, requested, parsed>>

ExtractNext == ExtractTask

ExtractSpec == ExtractInit /\ [][ExtractNext]_vars

(***************************************************************************)
(* GitClient._parse_commits.  A line of the log is the list of its fields   *)
(* as line.split('|', 5) returns them: hash, subject, author, date, parents *)
(* and timestamp.  The subject and the timestamp are sequences of           *)
(* characters, the parents field is the list parents.split() returns.       *)
(***************************************************************************)

\* Subjects of the lines of a log.
LogSubjects == {<<"A", "-", "1">>, <<"[", "A", "-", "1", "2", "]">>, <<"#", "2">>, <<"A">>}
\* The task identifiers a caller can ask for.
TaskIds == {<<"A", "-", "1">>, <<"A", "-", "1", "2">>}
\* The %at field as text: 5, 10, or not a number.
Timestamps == {<<"5">>, <<"1", "0">>, <<"x">>}

\* The lines that can stand at position h of a log (h serves as the hash):
\* commits of one parent, merges of two, and a line cut short after the
\* subject.  The %P field is the list of the parents.
LinesAt(h) ==
    {<<h, sub, "author", "date", <<"p">>, ts>> : sub \in LogSubjects, ts \in Timestamps}
    \cup {<<h, <<"A", "-", "1">>, "author", "date", <<"p", "q">>, ts>> : ts \in {<<"5">>, <<"x">>}}
    \cup {<<h, <<"A", "-", "1">>>>}

RECURSIVE LogsOf(_)
LogsOf(k) ==
    IF k = 0 THEN {<<>>}
    ELSE LET shorter == LogsOf(k - 1)
         IN  shorter \cup {Append(l, line) : l \in {x \in shorter : Len(x) = k - 1},
                                             line \in LinesAt(k)}

Logs == LogsOf(MaxLines)

DecimalDigits == {"0", "1", "2", "5"}
DigitValue(c) ==
    CASE c = "0" -> 0 [] c = "1" -> 1 [] c = "2" -> 2 [] c = "5" -> 5 [] OTHER -> 0

\* A parser that takes any text for a number.
IsIntLenient(ts) == TRUE

\* int(ts) at line 86 does not raise ValueError.
IsInt(ts) == Len(ts) > 0 /\ \A k \in 1..Len(ts) : ts[k] \in DecimalDigits

\* int(ts).
RECURSIVE IntOf(_)
IntOf(ts) ==
    IF ts = <<>> THEN 0
    ELSE IntOf(SubSeq(ts, 1, Len(ts) - 1)) * 10 + DigitValue(ts[Len(ts)])

\* A filter that trusts the text search of git log.
TaskFound(tid, wanted) == tid # None

\* Line 74: the derived task identifier is one of the requested ones.
TaskWanted(tid, wanted) == tid # None /\ tid \in wanted

\* A parent check that lets everything through.
IsMergeNever(parents) == FALSE

\* Line 78: more than one parent.
IsMerge(parents) == Len(parents) > 1

\* Lines 63-90: does the line yield a commit.
Accepted(line, wanted) ==
    /\ Len(line) >= 6
    /\ TaskWanted(ExtractTaskId(line[2]), wanted)
    /\ ~IsMerge(line[5])
    /\ IsInt(line[6])

\* Lines 81-88: the GitCommit of an accepted line.
GitCommit(line) ==
    [hash |-> line[1], subject |-> line[2], author |-> line[3], date |-> line[4],
     timestamp |-> IntOf(line[6]), task_id |-> ExtractTaskId(line[2])]

\* Lines 61-90: the commits of the lines from the k-th on, in log order.
RECURSIVE Collect(_, _, _)
Collect(lines, k, wanted) ==
    IF k > Len(lines) THEN <<>>
    ELSE IF Accepted(lines[k], wanted)
         THEN <<GitCommit(lines[k])>> \o Collect(lines, k + 1, wanted)
         ELSE Collect(lines, k + 1, wanted)

\* A key that leaves the commits in the order of the log.
SortKeyLogOrder(c) == c.hash

\* Line 93: the sort key.
SortKey(c) == c.timestamp

\* An insertion that moves a commit before the commits of equal key.
InsertBeforeEqual(c, sorted) ==
    LET before == {k \in 1..Len(sorted) : SortKey(sorted[k]) < SortKey(c)}
        m == IF before = {} THEN 0 ELSE CHOOSE k \in before : \A j \in before : j <= k
    IN  SubSeq(sorted, 1, m) \o <<c>> \o SubSeq(sorted, m + 1, Len(sorted))

\* list.sort is stable: a commit goes after the commits of a key that is
\* smaller or equal.
InsertStable(c, sorted) ==
    LET before == {k \in 1..Len(sorted) : SortKey(sorted[k]) <= SortKey(c)}
        m == IF before = {} THEN 0 ELSE CHOOSE k \in before : \A j \in before : j <= k
    IN  SubSeq(sorted, 1, m) \o <<c>> \o SubSeq(sorted, m + 1, Len(sorted))

\* Line 93: commits.sort(key=...), the first k commits sorted.
RECURSIVE SortFirst(_, _)
SortFirst(list, k) ==
    IF k = 0 THEN <<>> ELSE InsertStable(list[k], SortFirst(list, k - 1))

\* GitClient._parse_commits (lines 59-94).
ParseCommits(output, wanted) ==
    LET found == Collect(output, 1, wanted) IN SortFirst(found, Len(found))

ParseInit ==
    /\ EngineIdle
    /\ pc = "parse"
    /\ log \in Logs
    /\ requested \in SUBSET TaskIds
    /\ parsed = <<>>
    /\ subject = <<>>
    /\ task_id = None

\* A call of _parse_commits.
ParseLog ==
    /\ pc = "parse"
    /\ parsed' = ParseCommits(log, requested)
    /\ pc' = "parsed"
    /\ UNCHANGED <<engine, log, requested, subject, task_id>>

ParseNext == ParseLog

ParseSpec == ParseInit /\ [][ParseNext]_vars

(***************************************************************************)
(* Properties                                                               *)
(***************************************************************************)

Zeros == [emitted |-> TRUE, applied |-> 0, skipped |-> 0, failed |-> 0]
Blocked == {k \in 1..n : status[k] = "Blocked"}

\* C1: when run has ended, whatever the way it ended, the branch checked out
\* is the branch that was checked out when run was invoked, a detached HEAD
\* included.  Stated here for the runs in which no checkout command failed.
C1_BranchRestored ==
    (pc \in Terminal /\ ~checkoutFailed) => curBranch = startBranch

\* C2: once the operator has chosen abort at position i of n, the abort
\* command has been issued, abortedRemaining (failed) is n - i + 1 and no
\* commit at a position greater than i has had an apply attempt.
C2_AbortCountsRemaining ==
    choice = "a" =>
        /\ "abort" \in issued
        /\ failed = n - i + 1
        /\ \A k \in (i + 1)..n : attempts[k] = 0

\* C3: every execution of the replay loop that has returned, by exhausting
\* the list or by an operator abort, has emitted the final summary.
C3_SummaryOnEveryReturn ==
    (pc = "done" /\ i >= 1) => summary.emitted

\* C4: commits are replayed one at a time in list order: a commit has at most
\* one apply attempt, the commit at position k+1 has one only after the commit
\* at position k ended Applied or Skipped, and no later commit has one while
\* a commit is Blocked.
C4_StrictlySequential ==
    \A k \in 1..n :
        /\ attempts[k] <= 1
        /\ status[k] # "Pending" => attempts[k] = 1
        /\ (k > 1 /\ attempts[k] > 0) => status[k - 1] \in {"Applied", "Skipped"}
        /\ status[k] = "Blocked" => \A j \in (k + 1)..n : attempts[j] = 0

\* C4 witness: the second commit has been attempted after the first one,
\* which went through a recovery session, ended Skipped.
C4_Witness ==
    /\ n >= 2
    /\ attempts[2] = 1
    /\ status[1] = "Skipped"
    /\ status[2] = "Blocked"

C5_BlockedInv ==
    /\ pc \in {"menu", "askskip"} =>
          (i \in 1..n /\ status[i] = "Blocked" /\ attempts[i] = 1)
    /\ \A k \in Blocked : k = i /\ pc # "apply"

C5_Step ==
    \* a cherry-pick that did not succeed
    /\ (pc = "apply" /\ i <= n /\ successful' = successful) =>
          /\ pc' = "menu"
          /\ i' = i
          /\ status'[i] = "Blocked"
          /\ skipped' = skipped
    \* inside the session: no new apply attempt, and the commit leaves Blocked
    \* or the engine leaves the position only in a step that read a choice
    /\ pc \in {"menu", "askskip"} =>
          /\ attempts' = attempts
          /\ "cherry-pick" \notin issued'
          /\ (status' # status \/ i' # i \/ successful' # successful \/ skipped' # skipped)
                => choice' \in {"c", "u", "t", "m", "s", "y"}

\* C5: every failed apply attempt puts the commit in Blocked and enters the
\* recovery session; the commit is not counted as applied or skipped, the
\* engine does not move to the next commit and does not re-issue the apply
\* attempt until the operator has chosen an action in the session.
C5_FailureEntersRecovery == []C5_BlockedInv /\ [][C5_Step]_vars

\* C5 witness: a commit whose apply attempt failed is still Blocked, at the
\* menu, after the operator declined to skip it.
C5_Witness ==
    /\ pc = "menu"
    /\ reported = {"retry"}
    /\ status[i] = "Blocked"
    /\ successful + skipped = i - 1

\* C6: after a failed continue attempt the engine issues no abort and does
\* not count the commit as applied; it asks whether to skip; on 'y' it issues
\* skip and the commit ends Skipped; on any other answer the commit stays
\* Blocked and the menu is offered again.
C6_ContinueFailurePolicy ==
    /\ pc = "askskip" =>
          ("continue" \in issued /\ "abort" \notin issued /\ status[i] = "Blocked")
    /\ choice = "y" =>
          ("skip" \in issued /\ pc = "apply" /\ status[i - 1] = "Skipped")
    /\ reported = {"retry"} => (pc = "menu" /\ status[i] = "Blocked")

\* C7: choosing skip in the menu issues the skip operation, ends the blocked
\* commit as Skipped (one more skipped, applied unchanged) and does not invoke
\* the continue operation.
C7_SkipResolvesSkipped ==
    choice = "s" =>
        /\ issued = {"skip"}
        /\ pc = "apply"
        /\ status[i - 1] = "Skipped"
        /\ skipped = Cardinality({k \in 1..n : status[k] = "Skipped"})
        /\ successful = Cardinality({k \in 1..n : status[k] = "Applied"})

\* C8: on take-ours or take-theirs no unmerged path is left unstaged when the
\* continue attempt is made.  Stated here for the sessions in which no
\* command of the strategy failed.
C8_AllUnmergedStaged ==
    (choice \in {"u", "t"} /\ "continue" \in issued /\ "strategy-error" \notin reported)
        => unmerged = {}

\* C9: no failure of a recovery action (skip, abort, editor) propagates out
\* of the replay loop as an unhandled error.
C9_NoRecoveryFailurePropagates ==
    ~(pc = "crashed" /\ issued \cap {"skip", "abort", "editor"} # {})

Mutated ==
    \/ issued # {}
    \/ checkouts > 0
    \/ \E k \in 1..n : attempts[k] > 0 \/ status[k] # "Pending"
    \/ curBranch # startBranch

\* C11: no repository-mutating operation is ever issued unless dry-run is off
\* and the operator answered the confirmation with y (in either case, the
\* answer is lower-cased before the test); with dry-run on, or with any other
\* answer, run ends with nothing applied and no checkout.
C11_NoMutationWithoutConsent ==
    /\ Mutated => (~dry_run /\ Lower(confirm) = "y")
    /\ (dry_run \/ Lower(confirm) # "y") =>
          (pc \in {"main", "run", "confirm", "exit1", "done"} /\ successful = 0)

\* C11 witness: after the answer Y with dry-run off, the target has been
\* checked out and a cherry-pick has been issued.
C11_Witness ==
    /\ "cherry-pick" \in issued
    /\ confirm = "Y"
    /\ ~dry_run
    /\ checkouts = 1
\* s[p..e] is a LETTERS-DIGITS tag that no further digit follows.
IsTag(s, p, e) ==
    \E q \in (p + 1)..(e - 1) :
        /\ \A k \in p..(q - 1) : s[k] \in Upper
        /\ s[q] = "-"
        /\ \A k \in (q + 1)..e : s[k] \in Digit
        /\ (e = Len(s) \/ s[e + 1] \notin Digit)
TagAt(s, p) == \E e \in p..Len(s) : IsTag(s, p, e)
HasTag(s) == \E p \in 1..Len(s) : TagAt(s, p)
LeftmostTag(s) ==
    LET p0 == CHOOSE p \in 1..Len(s) : TagAt(s, p) /\ \A r \in 1..(p - 1) : ~TagAt(s, r)
        e0 == CHOOSE e \in p0..Len(s) : IsTag(s, p0, e)
    IN  SubSeq(s, p0, e0)

\* s[p..e+1] is a tag between brackets; the tag is s[p+1..e].
BracketAt(s, p, e) == s[p] = "[" /\ IsTag(s, p + 1, e) /\ e < Len(s) /\ s[e + 1] = "]"
HasBracket(s) == \E p \in 1..Len(s) : \E e \in p..Len(s) : BracketAt(s, p, e)
LeftmostBracket(s) ==
    LET p0 == CHOOSE p \in 1..Len(s) :
                  /\ \E e \in p..Len(s) : BracketAt(s, p, e)
                  /\ \A r \in 1..(p - 1) : \A e \in r..Len(s) : ~BracketAt(s, r, e)
        e0 == CHOOSE e \in p0..Len(s) : BracketAt(s, p0, e)
    IN  SubSeq(s, p0 + 1, e0)

\* s[p] is '#' and s[p+1..e] the digits after it.
IssueAt(s, p, e) ==
    /\ s[p] = "#"
    /\ e > p
    /\ \A k \in (p + 1)..e : s[k] \in Digit
    /\ (e = Len(s) \/ s[e + 1] \notin Digit)
HasIssue(s) == \E p \in 1..Len(s) : \E e \in p..Len(s) : IssueAt(s, p, e)
LeftmostIssue(s) ==
    LET p0 == CHOOSE p \in 1..Len(s) :
                  /\ \E e \in p..Len(s) : IssueAt(s, p, e)
                  /\ \A r \in 1..(p - 1) : \A e \in r..Len(s) : ~IssueAt(s, r, e)
        e0 == CHOOSE e \in p0..Len(s) : IssueAt(s, p0, e)
    IN  SubSeq(s, p0 + 1, e0)

\* C14 as claimed: extract returns the capture of the first rule that matches
\* in the order bracket-delimited tag, bare tag, '#' number, and none if no
\* rule matches; with a bare tag and a different bracket-delimited tag in the
\* subject, the bracket-delimited tag is the result.
C14_BracketFirst ==
    pc = "extracted" =>
        task_id = IF HasBracket(subject) THEN LeftmostBracket(subject)
                  ELSE IF HasTag(subject) THEN LeftmostTag(subject)
                  ELSE IF HasIssue(subject) THEN LeftmostIssue(subject)
                  ELSE None

\* C14 as amended: extract returns the leftmost LETTERS-DIGITS tag of the
\* subject, between brackets or not; if the subject has no tag, the number of
\* the leftmost '#' number; none otherwise.  The bracket rule never decides.
C14_LeftmostTagFirst ==
    pc = "extracted" =>
        task_id = IF HasTag(subject) THEN LeftmostTag(subject)
                  ELSE IF HasIssue(subject) THEN LeftmostIssue(subject)
                  ELSE None

\* C14 witness: the subject has a bare tag and, after it, a different tag
\* between brackets; the bare tag was returned.
C14_Witness ==
    /\ pc = "extracted"
    /\ HasBracket(subject)
    /\ task_id # LeftmostBracket(subject)
    /\ task_id = LeftmostTag(subject)

\* The timestamps of a list of commits, in its order.
TimestampsOf(list) == [k \in 1..Len(list) |-> list[k].timestamp]

\* The log with its lines rearranged by f.
Rearranged(f) == [k \in 1..Len(log) |-> log[f[k]]]

\* C12: whatever the requested tasks and the order of the lines of the log,
\* the commits handed to the replay are sorted non-decreasing by timestamp, and
\* the sequence of their timestamps is the same for every rearrangement of the
\* log: the order follows the timestamps alone.
C12_SortedByTimestamp ==
    pc = "parsed" =>
        /\ \A a, b \in 1..Len(parsed) : a < b => parsed[a].timestamp <= parsed[b].timestamp
        /\ \A f \in Permutations(1..Len(log)) :
               TimestampsOf(ParseCommits(Rearranged(f), requested)) = TimestampsOf(parsed)

\* C12 happens: two commits of different tasks stood in the log with the later
\* one first, and the output has them by timestamp.
C12_Witness ==
    /\ pc = "parsed"
    /\ Len(parsed) = 2
    /\ parsed[1].hash > parsed[2].hash
    /\ parsed[1].timestamp < parsed[2].timestamp
    /\ parsed[1].task_id # parsed[2].task_id

\* C13: two commits of equal timestamp stand in the output in the order their
\* lines had in the log.
C13_StableForTies ==
    pc = "parsed" =>
        \A a, b \in 1..Len(parsed) :
            (a < b /\ parsed[a].timestamp = parsed[b].timestamp)
                => parsed[a].hash < parsed[b].hash

\* C13 happens: the output holds two commits of the same timestamp.
C13_Witness ==
    /\ pc = "parsed"
    /\ \E a, b \in 1..Len(parsed) : a < b /\ parsed[a].timestamp = parsed[b].timestamp

\* C15: every commit of the output carries the task identifier extracted from
\* its own subject, and that identifier is one of the requested ones; a line
\* whose subject yields no identifier, or one that was not requested, has no
\* commit in the output.
C15_OnlyRequestedTasks ==
    pc = "parsed" =>
        /\ \A k \in 1..Len(parsed) :
               /\ parsed[k].subject = log[parsed[k].hash][2]
               /\ parsed[k].task_id = ExtractTaskId(parsed[k].subject)
               /\ parsed[k].task_id # None
               /\ parsed[k].task_id \in requested
        /\ \A h \in 1..Len(log) :
               (ExtractTaskId(log[h][2]) = None \/ ExtractTaskId(log[h][2]) \notin requested)
                   => \A k \in 1..Len(parsed) : parsed[k].hash # h

\* C15 happens: the log held a complete line of a task nobody asked for next
\* to a line that was asked for.
C15_Witness ==
    /\ pc = "parsed"
    /\ Len(parsed) = 1
    /\ \E h \in 1..Len(log) :
           /\ Len(log[h]) = 6
           /\ Len(log[h][5]) = 1
           /\ log[h][6] = <<"5">>
           /\ ExtractTaskId(log[h][2]) # None
           /\ ExtractTaskId(log[h][2]) \notin requested

\* C16: no commit of the output comes from a line with more than one parent.
C16_NoMergeCommits ==
    pc = "parsed" =>
        \A k \in 1..Len(parsed) : Len(log[parsed[k].hash][5]) <= 1

\* C16 happens: the log held a merge of a requested task with a proper
\* timestamp.
C16_Witness ==
    /\ pc = "parsed"
    /\ \E h \in 1..Len(log) :
           /\ Len(log[h]) = 6
           /\ Len(log[h][5]) = 2
           /\ log[h][6] = <<"5">>
           /\ ExtractTaskId(log[h][2]) \in requested

\* A line with fewer than six fields, or with a timestamp that is not a
\* sequence of decimal digits.
Malformed(line) ==
    \/ Len(line) < 6
    \/ line[6] = <<>>
    \/ \E k \in 1..Len(line[6]) : line[6][k] \notin {"0", "1", "2", "5"}

RECURSIVE WithoutMalformed(_)
WithoutMalformed(lines) ==
    IF lines = <<>> THEN <<>>
    ELSE LET rest == WithoutMalformed(Tail(lines))
         IN  IF Malformed(Head(lines)) THEN rest ELSE <<Head(lines)>> \o rest

\* C17: a malformed line yields no commit and leaves the commits of the other
\* lines as they are: the output of a log is the output of the same log
\* without its malformed lines.
C17_MalformedDropped ==
    pc = "parsed" =>
        /\ parsed = ParseCommits(WithoutMalformed(log), requested)
        /\ \A k \in 1..Len(parsed) : ~Malformed(log[parsed[k].hash])

\* C17 happens: a log with a malformed line of a requested task gave a commit
\* for another line.
C17_Witness ==
    /\ pc = "parsed"
    /\ Len(parsed) = 1
    /\ \E h \in 1..Len(log) :
           /\ Malformed(log[h])
           /\ ExtractTaskId(log[h][2]) \in requested


InSession == pc \in {"menu", "askskip"}

\* C18: in the menu, the diff, the list and an unknown letter start no
\* command, leave the counters, the position, the statuses and the conflict
\* as they are, and the menu is offered again for the same commit; and a
\* recovery session is left only with the commit applied, the commit skipped
\* or the run aborted.
C18_Step ==
    /\ (pc = "menu" /\ choice' \notin {"c", "u", "t", "m", "s", "a"})
           => /\ pc' = "menu"
              /\ issued' = {}
              /\ UNCHANGED <<i, counters, status, attempts, conflict, branch, summary>>
    /\ (InSession /\ ~InSession')
           => \/ status'[i] \in {"Applied", "Skipped"}
              \/ reported' = {"aborted"}

C18_InspectionFrame == [][C18_Step]_vars

\* C19: the process ends with status 1 exactly when the source branch was not
\* verified or the task set was empty, and with status 0 otherwise.
C19_ExitStatus ==
    pc \in Terminal => (ExitStatus = IF ~tasks \/ ~source_ok THEN 1 ELSE 0)

InLoop == pc \in {"apply", "menu", "askskip"}
LoopEnded == pc \in Terminal /\ reported \in {{"summary"}, {"aborted"}}

\* C20: while the loop runs, applied + skipped is the number of commits before
\* the current position, each of them counted once in the count of its
\* status, and nothing is counted as failed; when the loop has ended, by
\* exhaustion or by abort, applied + skipped + failed is n; and applied grows
\* only by one, with a cherry-pick or a continue that succeeded.
C20_Inv ==
    /\ (InLoop \/ LoopEnded) =>
           /\ successful = Cardinality({k \in 1..n : status[k] = "Applied"})
           /\ skipped = Cardinality({k \in 1..n : status[k] = "Skipped"})
           /\ \A k \in 1..n : status[k] \in {"Applied", "Skipped"} <=> k < i
    /\ InLoop => (successful + skipped = i - 1 /\ failed = 0)
    /\ LoopEnded => successful + skipped + failed = n

C20_Step ==
    successful' # successful =>
        /\ successful' = successful + 1
        /\ InLoop
        /\ status'[i] = "Applied"
        /\ \/ (pc = "apply" /\ issued' = {"cherry-pick"})
           \/ (pc = "menu" /\ "continue" \in issued')

C20_ExactAccounting == []C20_Inv /\ [][C20_Step]_vars

\* C20 happens: a run of two commits aborted at the second, with the first
\* applied.
C20_Witness ==
    /\ LoopEnded
    /\ reported = {"aborted"}
    /\ n = 2
    /\ successful = 1
    /\ failed = 1
    /\ attempts[1] = 1
    /\ status[1] = "Applied"
    /\ status[2] = "Blocked"


\* The last step was the operator's skip or abort with the command exiting 0,
\* or a continue that succeeded.
ChoseExit ==
    /\ reported # {"traceback"}
    /\ \/ issued \cap {"skip", "abort"} # {}
       \/ ("continue" \in issued /\ "continue-failed" \notin reported)

\* The run has ended with every commit applied or skipped, or, after an abort,
\* with the commits from the blocked one on counted as failed.
AllAccounted ==
    /\ pc \in Terminal
    /\ reported \in {{"summary"}, {"aborted"}}
    /\ \A k \in 1..n :
           \/ status[k] \in {"Applied", "Skipped"}
           \/ (reported = {"aborted"} /\ k >= i /\ failed = n - i + 1)

\* A step that keeps the engine in the recovery session of the same commit:
\* diff, list or an unknown letter; a continue that failed; the answer "no"
\* to the offer to skip.
NonTerminalStep ==
    \/ (pc = "menu" /\ pc' = "menu" /\ issued' = {}
            /\ choice' \notin {"c", "u", "t", "m", "s", "a"})
    \/ (pc = "menu" /\ pc' = "askskip" /\ "continue-failed" \in reported')
    \/ (pc = "askskip" /\ pc' = "menu" /\ choice' # "y")

C21_StayStep == (InSession /\ InSession' /\ i' = i) => NonTerminalStep

\* C21: if every recovery session sees the operator choose skip or abort with
\* the command succeeding, or a continue succeed, then the replay, once
\* started, reaches the end of run with every commit applied, skipped or
\* counted as failed by the abort; and the only steps that keep the engine on
\* a blocked commit are the non-terminal ones.
C21_TerminatesWhenCooperating ==
    /\ (InSession ~> ChoseExit) => (InLoop ~> AllAccounted)
    /\ [][C21_StayStep]_vars

\* C21 happens: a run of two commits ended with the summary, one commit
\* skipped in its recovery session and one applied.
C21_Witness ==
    /\ pc = "done"
    /\ reported = {"summary"}
    /\ n = 2
    /\ status = <<"Skipped", "Applied">>
    /\ attempts = <<1, 1>>

====
